---- MODULE Spec2Model ----
(***************************************************************************)
(* Model of sheet-firebase.js: the synchronisation layer that binds the    *)
(* labelled controls of a character-sheet page to the fields of a remote   *)
(* document (field registry, track maxima, debounced push, live snapshot   *)
(* subscription), and the layout channel that loads and saves the          *)
(* positions and sizes of the controls.                                    *)
(*                                                                         *)
(* JavaScript values are tagged records so that strings, booleans,         *)
(* numbers, null and undefined can live in one mapping.  Strings are       *)
(* sequences of UTF-16 code units, so that parseInt and String() are       *)
(* computed character by character.  The updatedAt timestamp of a payload  *)
(* is written by the code and never read by it; it is left out.            *)
(***************************************************************************)
EXTENDS Integers, Sequences, FiniteSets, TLC

VARIABLES
    pc,             \* the script: "init" before line 3, "layout" while boot() awaits
                    \* loadLayoutOnce, "ready" after boot(), "dead" once it has thrown
    listening,      \* attachDataListeners has run
    sub,            \* docRef.onSnapshot subscription: "none", "open", "error"
    dom,            \* control.value / control.checked of every control, by data-key
    disabled,       \* control.disabled, by data-key
    marked,         \* wrapper has class track-disabled, by data-key
    status,         \* connEl.textContent
    isInitialLoad,  \* the one-shot flag of boot()
    timers,         \* pending setTimeout callbacks of the debounce: remaining ms
    writes,         \* docRef.set calls in flight, oldest first
    doc,            \* the field document in the store
    dirty,          \* the store holds a change not yet delivered to the listener
    remotes,        \* number of writes made by other clients so far
    triggers,       \* history: edit triggers fired on listening controls
    bursts,         \* history: triggers that arrived with no timer pending
    pushes,         \* history: pushes dispatched by the debounced callback
    sinceTrigger,   \* history: ms since the last trigger while a callback is pending
    lastEdit,       \* history: key and value of the last edit not yet read by a push
    applied,        \* history: the {base}_max fields of the last snapshot applied
    boundLive,      \* history: the listener has handled a snapshot
    arg,            \* function harness: the mapping passed to the function
    pre,            \* function harness: control state before the call
    op,             \* function harness: the function last applied
    style,          \* by data-key: the parked class and the inline px styles
    layoutDoc,      \* the layout document in the store
    layoutOps,      \* layoutRef.get / layoutRef.set calls in flight, oldest first
    layoutCalls,    \* number of window.__layout calls so far
    uncaught,       \* origins of the exceptions and rejections nothing caught
    clients         \* two pages bound to the one field document: by page, its
                    \* controls, status, one-shot flag, timer and writes in flight

layoutVars == <<style, layoutDoc, layoutOps, layoutCalls, uncaught>>

vars == <<pc, listening, sub, dom, disabled, marked, status, isInitialLoad, timers,
          writes, doc, dirty, remotes, triggers, bursts, pushes, sinceTrigger,
          lastEdit, applied, boundLive, arg, pre, op, layoutVars, clients>>

(***************************************************************************)
(* JavaScript values                                                       *)
(***************************************************************************)
Str(s) == [t |-> "str", s |-> s, b |-> FALSE, n |-> 0]
Bool(b) == [t |-> "bool", s |-> <<>>, b |-> b, n |-> 0]
Num(n) == [t |-> "num", s |-> <<>>, b |-> FALSE, n |-> n]
Null == [t |-> "null", s |-> <<>>, b |-> FALSE, n |-> 0]
Undefined == [t |-> "undef", s |-> <<>>, b |-> FALSE, n |-> 0]

\* fields[key]: undefined when the mapping has no such key
Get(fields, key) == IF key \in DOMAIN fields THEN fields[key] ELSE Undefined

\* A string is the sequence of its UTF-16 code units, each a natural number.
\* The printable ASCII characters in code order: from the space (32) to the
\* underscore (95), and from a (97) to the tilde (126)
AsciiUpper ==
    <<" ", "!", "\"", "#", "$", "%", "&", "'", "(", ")", "*", "+", ",", "-",
      ".", "/", "0", "1", "2", "3", "4", "5", "6", "7", "8", "9", ":", ";",
      "<", "=", ">", "?", "@", "A", "B", "C", "D", "E", "F", "G", "H", "I",
      "J", "K", "L", "M", "N", "O", "P", "Q", "R", "S", "T", "U", "V", "W",
      "X", "Y", "Z", "[", "\\", "]", "^", "_">>

AsciiLower ==
    <<"a", "b", "c", "d", "e", "f", "g", "h", "i", "j", "k", "l", "m", "n",
      "o", "p", "q", "r", "s", "t", "u", "v", "w", "x", "y", "z", "{", "|",
      "}", "~">>

\* the code unit of a character written as a one-character string
CodeOf ==
    [c \in { AsciiUpper[i] : i \in 1..Len(AsciiUpper) }
            \cup { AsciiLower[i] : i \in 1..Len(AsciiLower) }
            \cup {"\t", "\n", "\f", "\r"} |->
        CASE c = "\t" -> 9
          [] c = "\n" -> 10
          [] c = "\f" -> 12
          [] c = "\r" -> 13
          [] \E i \in 1..Len(AsciiLower) : AsciiLower[i] = c ->
                96 + (CHOOSE i \in 1..Len(AsciiLower) : AsciiLower[i] = c)
          [] OTHER -> 31 + (CHOOSE i \in 1..Len(AsciiUpper) : AsciiUpper[i] = c)]

\* the string written as a sequence of one-character strings
RECURSIVE Text(_)
Text(s) == IF s = <<>> THEN <<>> ELSE <<CodeOf[Head(s)]>> \o Text(Tail(s))

\* a string value given by its characters
Lit(s) == Str(Text(s))

\* the code units of the digits 0 to 9
IsDigit(c) == c \in 48..57

DigitVal(c) == c - 48

RECURSIVE NatToText(_)
NatToText(n) ==
    IF n < 10 THEN <<48 + n>>
    ELSE NatToText(n \div 10) \o <<48 + (n % 10)>>

\* String(v), as the DOM value setter and parseInt apply it
ToText(v) ==
    CASE v.t = "str" -> v.s
      [] v.t = "bool" -> IF v.b THEN <<116, 114, 117, 101>>        \* true
                         ELSE <<102, 97, 108, 115, 101>>       \* false
      [] v.t = "num" -> IF v.n < 0 THEN <<45>> \o NatToText(-v.n)  \* -
                        ELSE NatToText(v.n)
      [] v.t = "null" -> <<110, 117, 108, 108>>                    \* null
      [] OTHER -> <<117, 110, 100, 101, 102, 105, 110, 101, 100>>  \* undefined

\* !!value
ToBoolean(v) ==
    CASE v.t = "str" -> v.s # <<>>
      [] v.t = "bool" -> v.b
      [] v.t = "num" -> v.n # 0
      [] OTHER -> FALSE

\* value ?? '', assigned to control.value
NullishToEmpty(v) ==
    IF v.t \in {"null", "undef"} THEN <<>> ELSE ToText(v)

\* the code units parseInt skips ahead of the numeral, WhiteSpace and
\* LineTerminator of ECMAScript: tab, line feed, vertical tab, form feed,
\* carriage return, space, no-break space, ogham space mark, en quad to hair
\* space, line and paragraph separator, narrow no-break space, medium
\* mathematical space, ideographic space and byte order mark
WhiteSpace ==
    {9, 10, 11, 12, 13, 32, 160, 5760, 8232, 8233, 8239, 8287, 12288, 65279}
        \cup (8192..8202)

\* StrWhiteSpaceChar* removed from the front of s
RECURSIVE StripLeft(_)
StripLeft(s) ==
    IF s # <<>> /\ Head(s) \in WhiteSpace THEN StripLeft(Tail(s)) ELSE s

\* the longest prefix of decimal digits of s, accumulated into acc
RECURSIVE DigitPrefix(_, _, _)
DigitPrefix(s, acc, seen) ==
    IF s # <<>> /\ IsDigit(Head(s))
    THEN DigitPrefix(Tail(s), acc * 10 + DigitVal(Head(s)), TRUE)
    ELSE [seen |-> seen, val |-> acc]

\* parseInt(v, 10): NaN, or a sign and a magnitude (the sign kept apart so that
\* -0, which is not < 0, stays distinct from a negative integer)
parseInt(v) ==
    LET s0 == StripLeft(ToText(v))
        signed == s0 # <<>> /\ Head(s0) \in {45, 43}    \* - and +
        neg == s0 # <<>> /\ Head(s0) = 45
        p == DigitPrefix(IF signed THEN Tail(s0) ELSE s0, 0, FALSE)
    IN [nan |-> ~p.seen, neg |-> neg, mag |-> p.val]

(***************************************************************************)
(* The page: the .field wrappers, and the track catalogue                  *)
(***************************************************************************)
TRACK_DEFINITIONS ==
    [armor |-> 12, hp |-> 12, stress |-> 12, hope |-> 10,
     gold_hand |-> 9, gold_bag |-> 9, proficiency |-> 6]

TrackNames == DOMAIN TRACK_DEFINITIONS

\* document.querySelectorAll('.field'): the wrappers of the modelled page, each
\* with the control querySelector('input, textarea') finds in it: "text" is an
\* <input type="text">, "checkbox" an <input type="checkbox">, "textarea" a
\* <textarea>, "none" no control.  Of the hp track the page renders box 0 as a
\* checkbox and box 11 as a textarea; the portrait wrapper holds no control.
getAllFieldWrappers ==
    { [key |-> "name", kind |-> "text"],
      [key |-> "hp_max", kind |-> "text"],
      [key |-> "hp_0", kind |-> "checkbox"],
      [key |-> "hp_11", kind |-> "textarea"],
      [key |-> "portrait", kind |-> "none"] }

\* wrapper.querySelector('input, textarea') finds a control
getControl(w) == w.kind # "none"

\* the wrappers that pass `if (!key || !control) return`
Registered == { w \in getAllFieldWrappers : w.key # "" /\ getControl(w) }

ControlKeys == { w.key : w \in Registered }

KindByKey == [k \in ControlKeys |-> (CHOOSE w \in Registered : w.key = k).kind]

KindOf(k) == KindByKey[k]

\* `${baseKey}_${i}` and `${baseKey}_max`
SubKey(base, i) == base \o "_" \o ToString(i)

MaxKey(base) == base \o "_max"

(***************************************************************************)
(* Field registry                                                          *)
(***************************************************************************)
getCurrentFieldsFromDom_NoCheckboxes(d) ==
    [k \in { w.key : w \in { x \in Registered : x.kind # "checkbox" } } |-> Str(d[k].s)]

getCurrentFieldsFromDom(d) ==
    [k \in ControlKeys |->
        IF KindOf(k) = "checkbox" THEN Bool(d[k].b) ELSE Str(d[k].s)]

\* the string without its line feeds (10) and carriage returns (13)
RECURSIVE StripNewlines(_)
StripNewlines(s) ==
    IF s = <<>> THEN <<>>
    ELSE IF Head(s) \in {10, 13} THEN StripNewlines(Tail(s))
    ELSE <<Head(s)>> \o StripNewlines(Tail(s))

\* the string with every CR LF pair (13 10) and every other CR replaced by
\* one LF
RECURSIVE NormalizeNewlines(_)
NormalizeNewlines(s) ==
    IF s = <<>> THEN <<>>
    ELSE IF Head(s) = 13
    THEN <<10>> \o
            NormalizeNewlines(IF Len(s) > 1 /\ s[2] = 10
                              THEN Tail(Tail(s)) ELSE Tail(s))
    ELSE <<Head(s)>> \o NormalizeNewlines(Tail(s))

\* what control.value holds once `control.value = s` has run: a text input
\* drops the line breaks of the assigned string, a textarea gives its line
\* breaks back as line feeds
SetValue(kind, s) ==
    IF kind = "textarea" THEN NormalizeNewlines(s) ELSE StripNewlines(s)

\* one control after applyFieldsToDom: every registered control is assigned
ApplyOne(fields, k) ==
    IF KindOf(k) = "checkbox"
    THEN Bool(ToBoolean(Get(fields, k)))
    ELSE Str(SetValue(KindOf(k), NullishToEmpty(Get(fields, k))))

\* the variant that skips the keys the mapping does not list
applyFieldsToDom_Partial(fields, d) ==
    [k \in ControlKeys |->
        IF k \in DOMAIN fields THEN ApplyOne(fields, k) ELSE d[k]]

\* fields is NoFields for a falsy argument (`if (!fields) return`)
NoFields == [nofields |-> TRUE]

applyFieldsToDom(fields, d) ==
    IF fields = NoFields THEN d
    ELSE [k \in ControlKeys |-> ApplyOne(fields, k)]

(***************************************************************************)
(* Track constraint engine                                                 *)
(***************************************************************************)
\* currentMax for the value v of fields[maxKey], after the two clamping statements
ClampedMax(v, absoluteMax) ==
    LET p == parseInt(v)
        c == IF p.nan \/ (p.neg /\ p.mag > 0) THEN absoluteMax ELSE p.mag
    IN IF c > absoluteMax THEN absoluteMax ELSE c

CurrentMax(fields, base) ==
    ClampedMax(Get(fields, MaxKey(base)), TRACK_DEFINITIONS[base])

\* the (baseKey, i) pairs the two loops of applyTrackMaxes run through
TrackLoop ==
    UNION { { <<b, i>> : i \in 0..(TRACK_DEFINITIONS[b] - 1) } : b \in TrackNames }

\* by key, the iterations whose querySelector finds the control of that key
SlotsByKey ==
    [k \in ControlKeys |-> { bi \in TrackLoop : SubKey(bi[1], bi[2]) = k }]

TrackSlots(k) == SlotsByKey[k]

\* the else branch is taken for k: some loop iteration finds it beyond the max
BeyondMax_OffByOne(fields, k) ==
    \E bi \in TrackSlots(k) : ~(bi[2] <= CurrentMax(fields, bi[1]))

BeyondMax(fields, k) ==
    \E bi \in TrackSlots(k) : ~(bi[2] < CurrentMax(fields, bi[1]))

Cleared(k) == IF KindOf(k) = "checkbox" THEN Bool(FALSE) ELSE Str(<<>>)

\* the variant whose else branch toggles the track-disabled class
applyTrackMaxes_ToggleMarker(fields, st) ==
    IF fields = NoFields THEN st
    ELSE [dom |-> [k \in ControlKeys |->
                     IF BeyondMax(fields, k) THEN Cleared(k) ELSE st.dom[k]],
          disabled |-> [k \in ControlKeys |->
                     IF TrackSlots(k) = {} THEN st.disabled[k]
                     ELSE BeyondMax(fields, k)],
          marked |-> [k \in ControlKeys |->
                     IF TrackSlots(k) = {} THEN st.marked[k]
                     ELSE IF BeyondMax(fields, k) THEN ~st.marked[k] ELSE FALSE]]

\* applyTrackMaxes, as the new [dom, disabled, marked]
applyTrackMaxes(fields, st) ==
    IF fields = NoFields THEN st
    ELSE [dom |-> [k \in ControlKeys |->
                     IF BeyondMax(fields, k) THEN Cleared(k) ELSE st.dom[k]],
          disabled |-> [k \in ControlKeys |->
                     IF TrackSlots(k) = {} THEN st.disabled[k]
                     ELSE BeyondMax(fields, k)],
          marked |-> [k \in ControlKeys |->
                     IF TrackSlots(k) = {} THEN st.marked[k]
                     ELSE BeyondMax(fields, k)]]

(***************************************************************************)
(* Bounds and inputs                                                       *)
(***************************************************************************)
MaxEvents == 2      \* edit triggers and writes by other clients per run, together
MaxRemote == 1      \* writes by other clients per run
MaxLayoutCalls == 1 \* calls of window.__layout.saveLayout / reloadLayout per run
TickMs == 200       \* granularity of the passage of time
MaxTwoEdits == 2    \* edits made on the two pages of one document, together

Delay == 400        \* the debounce delay of pushUpdates

Aria == Text(<<"A", "r", "i", "a">>)

\* what the user types into a text control, by key: a name, a maximum, and
\* nothing into the text box of a track
EditTexts(k) ==
    CASE k = "name" -> { <<>>, Text(<<"B">>) }
      [] k = "hp_max" -> { <<>>, Text(<<"0">>) }
      [] OTHER -> {}

\* the field document when the page loads: absent, or left by a session of
\* another template, which has a name and a notes field and no tracks
InitialDocs ==
    { [exists |-> FALSE, fields |-> <<>>],
      [exists |-> TRUE, fields |-> [name |-> Lit(<<"Z">>), notes |-> Lit(<<"n">>)]] }

\* the name as a page whose name control is a textarea reads it: the user
\* pressed Enter after it
AriaLine == Aria \o Text(<<"\n">>)

\* the merge writes another client can make: it renames the character
RemotePayloads == { [name |-> Str(AriaLine)] }

(***************************************************************************)
(* The store                                                               *)
(***************************************************************************)
Merge(old, new) ==
    [k \in (DOMAIN old) \cup (DOMAIN new) |->
        IF k \in DOMAIN new THEN new[k] ELSE old[k]]

\* set without merge: the payload replaces the document
StoreSet_Replace(d, payload) == [exists |-> TRUE, fields |-> payload]

\* docRef.set({fields, updatedAt}, {merge: true}) once the store applies it
StoreSet(d, payload) == [exists |-> TRUE, fields |-> Merge(d.fields, payload)]

(***************************************************************************)
(* Layout channel.  A layout entry (cfg) maps style attributes to values;  *)
(* the inline styles of a wrapper and its control are kept as px numbers   *)
(* by attribute.                                                           *)
(***************************************************************************)
PosAttrs == {"top", "left", "right", "bottom"}

SizeAttrs == {"width", "height", "lineHeight"}

\* the wrappers collectLayoutFromDom keeps (`if (!key) return`)
WrapperKeys == { w.key : w \in { x \in getAllFieldWrappers : x.key # "" } }

\* the attributes of cfg that applyLayout leaves changed in the styles of
\* wrapper k: a position when it is a number; a size when it is a number, the
\* wrapper has a control and the number is not negative (the style drops the
\* assignment of a negative width, height or line-height and keeps what it had)
Applicable(cfg, k) ==
    { a \in DOMAIN cfg :
        /\ cfg[a].t = "num"
        /\ \/ a \in PosAttrs
           \/ a \in SizeAttrs /\ k \in ControlKeys /\ cfg[a].n >= 0 }

applyLayout(layout, st) ==
    IF layout.fields = NoFields THEN st
    ELSE [k \in WrapperKeys |->
            IF k \notin DOMAIN layout.fields THEN st[k]
            ELSE LET cfg == layout.fields[k]
                 IN [parked |-> FALSE,
                     css |-> [a \in (DOMAIN st[k].css) \cup Applicable(cfg, k) |->
                                IF a \in Applicable(cfg, k) THEN cfg[a].n
                                ELSE st[k].css[a]]]]

\* the fields of the payload of collectLayoutFromDom: one cfg for every wrapper
\* that has a style to save
collectLayoutFromDom(st) ==
    [k \in { x \in WrapperKeys : DOMAIN st[x].css # {} } |->
        [a \in DOMAIN st[k].css |-> Num(st[k].css[a])]]

\* layoutRef.set(payload, {merge: true}) once the store applies it: the merge
\* descends into the cfg of a key both sides have
LayoutSet(l, payload) ==
    [exists |-> TRUE,
     fields |-> [k \in (DOMAIN l.fields) \cup (DOMAIN payload) |->
                    IF k \notin DOMAIN payload THEN l.fields[k]
                    ELSE IF k \notin DOMAIN l.fields THEN payload[k]
                    ELSE Merge(l.fields[k], payload[k])]]

\* loadLayoutOnce without its try/catch: a failed get rejects the promise
loadLayoutOnce_NoCatch(outcome, layout, st) ==
    IF outcome = "error" THEN [promise |-> "rejected", style |-> st]
    ELSE [promise |-> "resolved",
          style |-> IF layout.exists THEN applyLayout(layout, st) ELSE st]

\* loadLayoutOnce for an outcome of layoutRef.get(): how its promise settles
\* and the styles it leaves
loadLayoutOnce(outcome, layout, st) ==
    IF outcome = "error" THEN [promise |-> "resolved", style |-> st]
    ELSE [promise |-> "resolved",
          style |-> IF layout.exists THEN applyLayout(layout, st) ELSE st]

\* the document saveLayout writes to
saveLayoutRef_DocRef == "docRef"

saveLayoutRef == "layoutRef"

\* how the promise of saveLayout settles for an outcome of layoutRef.set()
saveLayout(outcome) == IF outcome = "error" THEN "rejected" ELSE "resolved"

\* the styles of the page as rendered: every wrapper parked, the name placed
InitialStyle ==
    [k \in WrapperKeys |->
        [parked |-> TRUE,
         css |-> IF k = "name" THEN [top |-> 5] ELSE <<>>]]

NoLayout == [exists |-> FALSE, fields |-> <<>>]

\* a saved layout: it places the name and the portrait, gives the portrait a
\* width and a top that is no number, gives box 0 a negative left and a
\* negative height, and lists a key the page does not have
SavedLayout ==
    [exists |-> TRUE,
     fields |-> [name |-> [top |-> Num(10), width |-> Num(200)],
                 portrait |-> [left |-> Num(7), width |-> Num(50),
                               top |-> Lit(<<"x">>)],
                 hp_0 |-> [left |-> Num(-3), height |-> Num(-4)],
                 ghost |-> [top |-> Num(1)]]]

LayoutDocs == { NoLayout, SavedLayout }

(***************************************************************************)
(* Debounce                                                                *)
(***************************************************************************)
\* a trigger that schedules a new callback without cancelling the pending one
debounce_NoClear(ts) == ts \cup {Delay}

\* a trigger that leaves a pending callback as it is (leading edge)
debounce_KeepPending(ts) == IF ts = {} THEN {Delay} ELSE ts

\* clearTimeout(timer); timer = setTimeout(..., delay)
debounce(ts) == {Delay}

Elapse(t) == IF t > TickMs THEN t - TickMs ELSE 0

(***************************************************************************)
(* Handlers                                                                *)
(***************************************************************************)
ControlState == [dom |-> dom, disabled |-> disabled, marked |-> marked]

\* the existing-document branch of the snapshot handler on the controls:
\* applyFieldsToDom(fields); applyTrackMaxes(fields)
SnapshotApply(fields, st) ==
    applyTrackMaxes(fields, [st EXCEPT !.dom = applyFieldsToDom(fields, st.dom)])

\* the {base}_max entries of a mapping, as applyTrackMaxes reads them
MaxFields(fields) == [b \in TrackNames |-> Get(fields, MaxKey(b))]

\* the status text the existing-document branch sets
LoadedStatus_Always(initial) == "Connected (loaded from cloud)"

LoadedStatus(initial) ==
    IF initial THEN "Connected (loaded from cloud)" ELSE "Updated from cloud"

\* isInitialLoad after the missing-document branch, which returns early
InitialAfterCreate_Cleared(initial) == FALSE

InitialAfterCreate(initial) == initial

\* the status text the catch block of pushUpdates sets
FailedStatus_Unset(old) == old

FailedStatus(old) == "Sync failed"

Defaults == [k \in ControlKeys |-> IF KindOf(k) = "checkbox" THEN Bool(FALSE) ELSE Str(<<>>)]

AllFalse == [k \in ControlKeys |-> FALSE]

NoEdit == [key |-> "", value |-> Undefined]

HarnessIdle == /\ arg = NoFields
               /\ pre = NoFields
               /\ op = "none"

\* the debounce timer after the existing-document branch has assigned the
\* controls: assigning value or checked fires no input or change event
TimersAfterApply_Echo(ts) == debounce(ts)

TimersAfterApply(ts) == ts

\* no second page is modelled
NoClients == <<>>

\* the page as rendered, before its script runs
PageAsRendered ==
    /\ pc = "init"
    /\ listening = FALSE
    /\ sub = "none"
    /\ dom = Defaults
    /\ disabled = AllFalse
    /\ marked = AllFalse
    /\ status = ""
    /\ isInitialLoad = TRUE
    /\ timers = {}
    /\ writes = <<>>
    /\ dirty = FALSE
    /\ remotes = 0
    /\ triggers = 0
    /\ bursts = 0
    /\ pushes = 0
    /\ sinceTrigger = -1
    /\ lastEdit = NoEdit
    /\ applied = NoFields
    /\ boundLive = FALSE
    /\ HarnessIdle
    /\ style = InitialStyle
    /\ layoutOps = <<>>
    /\ layoutCalls = 0
    /\ uncaught = {}

\* the page before the script runs, without the layout document
InitPage ==
    /\ PageAsRendered
    /\ doc \in InitialDocs
    /\ clients = NoClients

\* no layout has been saved for the page
Init ==
    /\ InitPage
    /\ layoutDoc = NoLayout

\* lines 3-26 run: the store client is there, boot() starts and awaits
\* loadLayoutOnce
InitOk ==
    /\ pc = "init"
    /\ pc' = "layout"
    /\ UNCHANGED <<sub, dom, disabled, marked, status, isInitialLoad, timers, writes,
                   doc, dirty, remotes, triggers, bursts, pushes, sinceTrigger,
                   lastEdit, applied, boundLive, arg, pre, op, listening, layoutVars, clients>>

\* firebase.initializeApp or firebase.firestore throws: the script stops there
InitFail ==
    /\ pc = "init"
    /\ pc' = "dead"
    /\ uncaught' = uncaught \cup {"init"}
    /\ UNCHANGED <<sub, dom, disabled, marked, status, isInitialLoad, timers, writes,
                   doc, dirty, remotes, triggers, bursts, pushes, sinceTrigger,
                   lastEdit, applied, boundLive, arg, pre, op, listening, style,
                   layoutDoc, layoutOps, layoutCalls,
                   clients>>

\* boot() resumes after `await loadLayoutOnce()`: attachDataListeners(), then
\* docRef.onSnapshot, then window.__layout
BootResume ==
    /\ pc' = "ready"
    /\ listening' = TRUE
    /\ sub' = "open"
    /\ dirty' = TRUE
    /\ uncaught' = uncaught

\* the layoutRef.get() of boot's loadLayoutOnce settles; a rejection of the
\* awaited promise would end boot()
BootLayout(outcome) ==
    /\ pc = "layout"
    /\ LET r == loadLayoutOnce(outcome, layoutDoc, style)
       IN /\ style' = r.style
          /\ IF r.promise = "resolved" THEN BootResume
             ELSE /\ pc' = "dead"
                  /\ uncaught' = uncaught \cup {"boot"}
                  /\ UNCHANGED <<listening, sub, dirty>>
    /\ UNCHANGED <<dom, disabled, marked, status, isInitialLoad, timers, writes, doc,
                   remotes, triggers, bursts, pushes, sinceTrigger, lastEdit, applied,
                   boundLive, arg, pre, op, layoutDoc, layoutOps, layoutCalls,
                   clients>>

BootLayoutOk == BootLayout("ok")

BootLayoutFail == BootLayout("error")

\* the values the user can give control k of a page whose controls hold d
EditValuesOf(d, k) ==
    IF KindOf(k) = "checkbox" THEN { Bool(~d[k].b) }
    ELSE { Str(s) : s \in EditTexts(k) \ {d[k].s} }

\* the values the user can give control k
EditValues(k) == EditValuesOf(dom, k)

\* the user edits an enabled control; its input/change listener runs
Edit(k, v) ==
    /\ pc = "ready"
    /\ listening
    /\ ~disabled[k]
    /\ v \in EditValues(k)
    /\ triggers + remotes < MaxEvents
    /\ dom' = [dom EXCEPT ![k] = v]
    /\ status' = "Syncing"
    /\ timers' = debounce(timers)
    /\ triggers' = triggers + 1
    /\ bursts' = IF timers = {} THEN bursts + 1 ELSE bursts
    /\ sinceTrigger' = 0
    /\ lastEdit' = [key |-> k, value |-> v]
    /\ UNCHANGED <<pc, sub, disabled, marked, isInitialLoad, writes, doc, dirty,
                   remotes, pushes, applied, boundLive, arg, pre, op,
                   listening, layoutVars, clients>>

\* the user edits a control while no listener is attached to it: before the
\* script runs, while boot() awaits the layout, or after the script has stopped.
\* The control takes the value and nothing else happens.
EditLocal(k, v) ==
    /\ pc \in {"init", "layout", "dead"}
    /\ ~listening
    /\ ~disabled[k]
    /\ v \in EditValues(k)
    /\ dom' = [dom EXCEPT ![k] = v]
    /\ UNCHANGED <<pc, sub, disabled, marked, status, isInitialLoad, timers, writes,
                   doc, dirty, remotes, triggers, bursts, pushes, sinceTrigger,
                   lastEdit, applied, boundLive, arg, pre, op, listening, layoutVars, clients>>

\* time passes while a callback is pending and none is due
Tick ==
    /\ timers # {}
    /\ \A t \in timers : t > 0
    /\ timers' = { Elapse(t) : t \in timers }
    /\ sinceTrigger' = sinceTrigger + TickMs
    /\ UNCHANGED <<pc, sub, dom, disabled, marked, status, isInitialLoad, writes, doc,
                   dirty, remotes, triggers, bursts, pushes, lastEdit, applied,
                   boundLive, arg, pre, op,
                   listening, layoutVars, clients>>

\* a due callback runs pushUpdates up to its await: read the DOM, call set
TimerFire ==
    /\ 0 \in timers
    /\ timers' = timers \ {0}
    /\ writes' = Append(writes, [kind |-> "push",
                                 fields |-> getCurrentFieldsFromDom(dom)])
    /\ pushes' = pushes + 1
    /\ sinceTrigger' = IF timers' = {} THEN -1 ELSE sinceTrigger
    /\ lastEdit' = IF timers' = {} THEN NoEdit ELSE lastEdit
    /\ UNCHANGED <<pc, sub, dom, disabled, marked, status, isInitialLoad, doc, dirty,
                   remotes, triggers, bursts, applied, boundLive, arg, pre, op,
                   listening, layoutVars, clients>>

\* the store applies and acknowledges the oldest write in flight
WriteOk ==
    /\ writes # <<>>
    /\ doc' = StoreSet(doc, Head(writes).fields)
    /\ dirty' = TRUE
    /\ writes' = Tail(writes)
    /\ status' = IF Head(writes).kind = "push" THEN "Synced" ELSE status
    /\ UNCHANGED <<pc, sub, dom, disabled, marked, isInitialLoad, timers, remotes,
                   triggers, bursts, pushes, sinceTrigger, lastEdit, applied,
                   boundLive, arg, pre, op,
                   listening, layoutVars, clients>>

\* the store rejects the oldest write in flight
WriteFail ==
    /\ writes # <<>>
    /\ writes' = Tail(writes)
    /\ status' = IF Head(writes).kind = "push" THEN FailedStatus(status) ELSE status
    /\ UNCHANGED <<pc, sub, dom, disabled, marked, isInitialLoad, timers, doc, dirty,
                   remotes, triggers, bursts, pushes, sinceTrigger, lastEdit, applied,
                   boundLive, arg, pre, op,
                   listening, layoutVars, clients>>

\* another client writes the document
RemoteWrite(p) ==
    /\ remotes < MaxRemote
    /\ triggers + remotes < MaxEvents
    /\ remotes' = remotes + 1
    /\ doc' = StoreSet(doc, p)
    /\ dirty' = TRUE
    /\ UNCHANGED <<pc, sub, dom, disabled, marked, status, isInitialLoad, timers,
                   writes, triggers, bursts, pushes, sinceTrigger, lastEdit, applied,
                   boundLive, arg, pre, op,
                   listening, layoutVars, clients>>

\* the listener receives a snapshot of a document that does not exist
OnSnapshotMissing ==
    /\ sub = "open"
    /\ dirty
    /\ ~doc.exists
    /\ dirty' = FALSE
    /\ writes' = Append(writes, [kind |-> "create",
                                 fields |-> getCurrentFieldsFromDom(dom)])
    /\ status' = "Connected (new sheet)"
    /\ isInitialLoad' = InitialAfterCreate(isInitialLoad)
    /\ boundLive' = TRUE
    /\ UNCHANGED <<pc, sub, dom, disabled, marked, timers, doc, remotes, triggers,
                   bursts, pushes, sinceTrigger, lastEdit, applied, arg, pre, op,
                   listening, layoutVars, clients>>

\* the listener receives a snapshot of the existing document
OnSnapshotExists ==
    /\ sub = "open"
    /\ dirty
    /\ doc.exists
    /\ dirty' = FALSE
    /\ LET st == SnapshotApply(doc.fields, ControlState)
       IN /\ dom' = st.dom
          /\ disabled' = st.disabled
          /\ marked' = st.marked
    /\ status' = LoadedStatus(isInitialLoad)
    /\ isInitialLoad' = FALSE
    /\ applied' = MaxFields(doc.fields)
    /\ boundLive' = TRUE
    /\ timers' = TimersAfterApply(timers)
    /\ UNCHANGED <<pc, sub, writes, doc, remotes, triggers, bursts, pushes,
                   sinceTrigger, lastEdit, arg, pre, op,
                   listening, layoutVars, clients>>

\* the subscription fails; the error is terminal
OnSnapshotError ==
    /\ sub = "open"
    /\ sub' = "error"
    /\ status' = "Connection error"
    /\ UNCHANGED <<pc, dom, disabled, marked, isInitialLoad, timers, writes, doc,
                   dirty, remotes, triggers, bursts, pushes, sinceTrigger, lastEdit,
                   applied, boundLive, arg, pre, op,
                   listening, layoutVars, clients>>

\* window.__layout.saveLayout(): collect the styles and call set
SaveLayout ==
    /\ pc = "ready"
    /\ layoutCalls < MaxLayoutCalls
    /\ layoutCalls' = layoutCalls + 1
    /\ layoutOps' = Append(layoutOps, [ref |-> saveLayoutRef, kind |-> "set",
                                       fields |-> collectLayoutFromDom(style)])
    /\ UNCHANGED <<pc, sub, dom, disabled, marked, status, isInitialLoad, timers,
                   writes, doc, dirty, remotes, triggers, bursts, pushes,
                   sinceTrigger, lastEdit, applied, boundLive, arg, pre, op,
                   listening, style, layoutDoc, uncaught,
                   clients>>

\* window.__layout.reloadLayout(): loadLayoutOnce calls get
ReloadLayout ==
    /\ pc = "ready"
    /\ layoutCalls < MaxLayoutCalls
    /\ layoutCalls' = layoutCalls + 1
    /\ layoutOps' = Append(layoutOps, [ref |-> "layoutRef", kind |-> "get",
                                       fields |-> <<>>])
    /\ UNCHANGED <<pc, sub, dom, disabled, marked, status, isInitialLoad, timers,
                   writes, doc, dirty, remotes, triggers, bursts, pushes,
                   sinceTrigger, lastEdit, applied, boundLive, arg, pre, op,
                   listening, style, layoutDoc, uncaught,
                   clients>>

\* the store applies and acknowledges the set of saveLayout, to the document
\* the call named
LayoutSetOk ==
    /\ layoutOps # <<>>
    /\ Head(layoutOps).kind = "set"
    /\ layoutOps' = Tail(layoutOps)
    /\ IF Head(layoutOps).ref = "layoutRef"
       THEN /\ layoutDoc' = LayoutSet(layoutDoc, Head(layoutOps).fields)
            /\ UNCHANGED <<doc, dirty>>
       ELSE /\ doc' = StoreSet(doc, Head(layoutOps).fields)
            /\ dirty' = TRUE
            /\ UNCHANGED layoutDoc
    /\ UNCHANGED <<pc, sub, dom, disabled, marked, status, isInitialLoad, timers,
                   writes, remotes, triggers, bursts, pushes, sinceTrigger, lastEdit,
                   applied, boundLive, arg, pre, op, listening, style, layoutCalls,
                   uncaught,
                   clients>>

\* the store rejects the set of saveLayout
LayoutSetFail ==
    /\ layoutOps # <<>>
    /\ Head(layoutOps).kind = "set"
    /\ layoutOps' = Tail(layoutOps)
    /\ uncaught' = IF saveLayout("error") = "rejected"
                   THEN uncaught \cup {"saveLayout"} ELSE uncaught
    /\ UNCHANGED <<pc, sub, dom, disabled, marked, status, isInitialLoad, timers,
                   writes, doc, dirty, remotes, triggers, bursts, pushes,
                   sinceTrigger, lastEdit, applied, boundLive, arg, pre, op,
                   listening, style, layoutDoc, layoutCalls,
                   clients>>

\* the get of reloadLayout settles
LayoutGet(outcome) ==
    /\ layoutOps # <<>>
    /\ Head(layoutOps).kind = "get"
    /\ layoutOps' = Tail(layoutOps)
    /\ LET r == loadLayoutOnce(outcome, layoutDoc, style)
       IN /\ style' = r.style
          /\ uncaught' = IF r.promise = "rejected"
                         THEN uncaught \cup {"reloadLayout"} ELSE uncaught
    /\ UNCHANGED <<pc, sub, dom, disabled, marked, status, isInitialLoad, timers,
                   writes, doc, dirty, remotes, triggers, bursts, pushes,
                   sinceTrigger, lastEdit, applied, boundLive, arg, pre, op,
                   listening, layoutDoc, layoutCalls,
                   clients>>

LayoutGetOk == LayoutGet("ok")

LayoutGetFail == LayoutGet("error")

Next ==
    \/ InitOk
    \/ InitFail
    \/ BootLayoutOk
    \/ BootLayoutFail
    \/ \E k \in ControlKeys : \E v \in EditValues(k) : EditLocal(k, v)
    \/ \E k \in ControlKeys : \E v \in EditValues(k) : Edit(k, v)
    \/ Tick
    \/ TimerFire
    \/ WriteOk
    \/ WriteFail
    \/ \E p \in RemotePayloads : RemoteWrite(p)
    \/ OnSnapshotMissing
    \/ OnSnapshotExists
    \/ OnSnapshotError

Spec == Init /\ [][Next]_vars

\* the page alone on its document: every step but the writes of other clients
NextLive ==
    \/ InitOk
    \/ InitFail
    \/ BootLayoutOk
    \/ BootLayoutFail
    \/ \E k \in ControlKeys : \E v \in EditValues(k) : EditLocal(k, v)
    \/ \E k \in ControlKeys : \E v \in EditValues(k) : Edit(k, v)
    \/ Tick
    \/ TimerFire
    \/ WriteOk
    \/ WriteFail
    \/ OnSnapshotMissing
    \/ OnSnapshotExists
    \/ OnSnapshotError

\* the debounce timer runs and a due callback is called
SpecLive == Init /\ [][NextLive]_vars /\ WF_vars(Tick) /\ WF_vars(TimerFire)

\* the page with or without a saved layout
InitLayout ==
    /\ InitPage
    /\ layoutDoc \in LayoutDocs

\* the sessions that call window.__layout: every step of the page, with the
\* user's edits and the other clients' writes held to one burst of edits or
\* one remote write per session
NextLayout ==
    \/ InitOk
    \/ InitFail
    \/ BootLayoutOk
    \/ BootLayoutFail
    \/ \E k \in ControlKeys : \E v \in EditValues(k) : EditLocal(k, v)
    \/ \E k \in ControlKeys : \E v \in EditValues(k) :
          remotes = 0 /\ (triggers = 0 \/ timers # {}) /\ Edit(k, v)
    \/ Tick
    \/ TimerFire
    \/ WriteOk
    \/ WriteFail
    \/ \E p \in RemotePayloads : triggers + remotes = 0 /\ RemoteWrite(p)
    \/ OnSnapshotMissing
    \/ OnSnapshotExists
    \/ OnSnapshotError
    \/ SaveLayout
    \/ ReloadLayout
    \/ LayoutSetOk
    \/ LayoutSetFail
    \/ LayoutGetOk
    \/ LayoutGetFail

SpecLayout == InitLayout /\ [][NextLayout]_vars

(***************************************************************************)
(* Two pages on one document.  Each page has run its script up to the      *)
(* subscription of boot(): its listeners are attached and the first        *)
(* snapshot of the existing document is on its way.  Each page is a record *)
(* of what the script and the controls of that page hold; the handlers are *)
(* those of the single page, applied to the record.  The store delivers    *)
(* every change of the document to both subscriptions, so the              *)
(* subscriptions do not fail; a write the store rejects changes nothing.   *)
(***************************************************************************)
Clients == {1, 2}

\* the field document both pages are bound to, left by a session of another
\* template: a name read from a textarea, with the line break the user typed
\* after it, a notes field the page has no control for, and of the hp track
\* the first box, checked, and the last, with two lines of text divided by
\* CR LF, but no maximum
TwoDocs ==
    { [exists |-> TRUE,
       fields |-> [name |-> Str(AriaLine), notes |-> Lit(<<"n">>),
                   hp_0 |-> Bool(TRUE),
                   hp_11 |-> Lit(<<"x", "\r", "\n", "y">>)]] }

\* a page once boot() has subscribed; rejected is history, the fields of the
\* last push of the page the store rejected
BoundClient ==
    [dom |-> Defaults, disabled |-> AllFalse, marked |-> AllFalse, status |-> "",
     isInitialLoad |-> TRUE, timers |-> {}, writes |-> <<>>, dirty |-> TRUE,
     edits |-> 0, rejected |-> NoFields]

InitTwo ==
    /\ PageAsRendered
    /\ remotes = 0
    /\ triggers = 0
    /\ bursts = 0
    /\ pushes = 0
    /\ sinceTrigger = -1
    /\ lastEdit = NoEdit
    /\ applied = NoFields
    /\ boundLive = FALSE
    /\ HarnessIdle
    /\ style = InitialStyle
    /\ layoutDoc = NoLayout
    /\ layoutOps = <<>>
    /\ layoutCalls = 0
    /\ uncaught = {}
    /\ doc \in TwoDocs
    /\ clients = [c \in Clients |-> BoundClient]

\* the variables of the single page, which the two pages do not use
TwoFrame == UNCHANGED <<pc, listening, sub, dom, disabled, marked, status,
                        isInitialLoad, timers, writes, dirty, remotes, triggers,
                        bursts, pushes, sinceTrigger, lastEdit, applied, boundLive,
                        arg, pre, op, layoutVars>>

\* the user of page c edits an enabled control; its input/change listener runs
TwoEdit(c, k, v) ==
    /\ ~clients[c].disabled[k]
    /\ v \in EditValuesOf(clients[c].dom, k)
    /\ clients[1].edits + clients[2].edits < MaxTwoEdits
    /\ clients' = [clients EXCEPT ![c].dom[k] = v,
                                  ![c].status = "Syncing",
                                  ![c].timers = debounce(@),
                                  ![c].edits = @ + 1]
    /\ UNCHANGED doc
    /\ TwoFrame

\* time passes on both pages while a callback is pending and none is due
TwoTick ==
    /\ \E c \in Clients : clients[c].timers # {}
    /\ \A c \in Clients : \A t \in clients[c].timers : t > 0
    /\ clients' = [c \in Clients |->
                     [clients[c] EXCEPT !.timers = { Elapse(t) : t \in @ }]]
    /\ UNCHANGED doc
    /\ TwoFrame

\* a due callback of page c runs pushUpdates up to its await
TwoTimerFire(c) ==
    /\ 0 \in clients[c].timers
    /\ clients' = [clients EXCEPT
                     ![c].timers = @ \ {0},
                     ![c].writes = Append(@, getCurrentFieldsFromDom(clients[c].dom))]
    /\ UNCHANGED doc
    /\ TwoFrame

\* the store applies and acknowledges the oldest push of page c; the change
\* is to be delivered to both subscriptions
TwoWriteOk(c) ==
    /\ clients[c].writes # <<>>
    /\ doc' = StoreSet(doc, Head(clients[c].writes))
    /\ clients' = [x \in Clients |->
                     IF x = c
                     THEN [clients[x] EXCEPT !.writes = Tail(@),
                                             !.status = "Synced",
                                             !.dirty = TRUE]
                     ELSE [clients[x] EXCEPT !.dirty = TRUE]]
    /\ TwoFrame

\* the store rejects the oldest push of page c
TwoWriteFail(c) ==
    /\ clients[c].writes # <<>>
    /\ clients' = [clients EXCEPT ![c].writes = Tail(@),
                                  ![c].status = FailedStatus(@),
                                  ![c].rejected = Head(clients[c].writes)]
    /\ UNCHANGED doc
    /\ TwoFrame

\* the listener of page c receives a snapshot of the document, which exists
TwoOnSnapshot(c) ==
    /\ clients[c].dirty
    /\ doc.exists
    /\ LET me == clients[c]
           st == SnapshotApply(doc.fields, [dom |-> me.dom, disabled |-> me.disabled,
                                            marked |-> me.marked])
       IN clients' = [clients EXCEPT ![c] =
                        [me EXCEPT !.dom = st.dom,
                                   !.disabled = st.disabled,
                                   !.marked = st.marked,
                                   !.status = LoadedStatus(me.isInitialLoad),
                                   !.isInitialLoad = FALSE,
                                   !.timers = TimersAfterApply(@),
                                   !.dirty = FALSE]]
    /\ UNCHANGED doc
    /\ TwoFrame

NextTwo ==
    \/ \E c \in Clients : \E k \in ControlKeys :
          \E v \in EditValuesOf(clients[c].dom, k) : TwoEdit(c, k, v)
    \/ TwoTick
    \/ \E c \in Clients : TwoTimerFire(c)
    \/ \E c \in Clients : TwoWriteOk(c)
    \/ \E c \in Clients : TwoWriteFail(c)
    \/ \E c \in Clients : TwoOnSnapshot(c)

SpecTwo == InitTwo /\ [][NextTwo]_vars

(***************************************************************************)
(* Function harness: applyFieldsToDom, applyTrackMaxes and the handler's   *)
(* existing-document branch, each applied once to a control state the page *)
(* can be in and to a mapping drawn from FnArgs.                           *)
(***************************************************************************)
\* values a {base}_max field can carry; 160 is the no-break space, which
\* parseInt skips, and 233 the letter e with acute accent, which it does not
FnMaxValues ==
    { Str(<<>>), Lit(<<"0">>), Lit(<<"1">>), Lit(<<"3">>), Lit(<<"1", "1">>),
      Lit(<<"1", "2">>), Lit(<<"+", "3">>),
      Lit(<<"-", "1">>), Lit(<<"-", "0", ".", "5">>), Lit(<<"a", "b", "c">>),
      Lit(<<"2", ".", "7">>), Lit(<<"\t", "3">>), Lit(<<"\n", "0">>),
      Lit(<<" ", "\t", " ", "4">>), Lit(<<"\r", "-", "1">>), Lit(<<"\t">>),
      Str(<<160>> \o Text(<<"1", "2">>)), Str(<<233>> \o Text(<<"3">>)),
      Num(0), Num(3), Num(20), Num(-2), Bool(TRUE), Null }

\* every mapping that gives each key one of its values or leaves it out
FnChoices ==
    [name : {Undefined, Str(Aria)},
     hp_max : FnMaxValues \cup {Undefined},
     hp_0 : {Undefined, Bool(TRUE), Lit(<<"x">>)},
     hp_11 : {Undefined, Lit(<<"x", "\r", "\n", "y">>), Num(7)},
     notes : {Undefined, Lit(<<"n">>)}]

Prune(f) == [k \in { x \in DOMAIN f : f[x].t # "undef" } |-> f[k]]

FnArgs == { Prune(f) : f \in FnChoices } \cup {NoFields}

\* control values the user may have entered
FnDoms ==
    { d \in [ControlKeys -> { Bool(FALSE), Bool(TRUE), Str(<<>>), Lit(<<"x">>) }] :
        \A k \in ControlKeys : (d[k].t = "bool") <=> (KindOf(k) = "checkbox") }

\* hp_max of the snapshot applied before the call
FnPriorMax == { Str(<<>>), Lit(<<"0">>), Lit(<<"5">>) }

InitFn ==
    /\ pc = "ready"
    /\ sub = "open"
    /\ status = ""
    /\ isInitialLoad = FALSE
    /\ timers = {}
    /\ writes = <<>>
    /\ doc = [exists |-> TRUE, fields |-> <<>>]
    /\ dirty = FALSE
    /\ remotes = 0
    /\ triggers = 0
    /\ bursts = 0
    /\ pushes = 0
    /\ sinceTrigger = -1
    /\ lastEdit = NoEdit
    /\ applied = NoFields
    /\ boundLive = FALSE
    /\ arg \in FnArgs
    /\ op = "none"
    /\ \E d \in FnDoms, m \in FnPriorMax :
          pre = applyTrackMaxes([hp_max |-> m],
                    [dom |-> d, disabled |-> AllFalse, marked |-> AllFalse])
    /\ dom = pre.dom
    /\ disabled = pre.disabled
    /\ marked = pre.marked
    /\ listening = TRUE
    /\ style = InitialStyle
    /\ layoutDoc = NoLayout
    /\ layoutOps = <<>>
    /\ layoutCalls = 0
    /\ uncaught = {}
    /\ clients = NoClients

FnFrame == UNCHANGED <<pc, sub, status, isInitialLoad, timers, writes, doc, dirty,
                       remotes, triggers, bursts, pushes, sinceTrigger, lastEdit,
                       applied, boundLive, arg, pre, listening, layoutVars, clients>>

FnApplyAll ==
    /\ op = "none"
    /\ op' = "applyAll"
    /\ dom' = applyFieldsToDom(arg, dom)
    /\ UNCHANGED <<disabled, marked>>
    /\ FnFrame

FnEnforce ==
    /\ op = "none"
    /\ op' = "enforce"
    /\ LET st == applyTrackMaxes(arg, ControlState)
       IN /\ dom' = st.dom
          /\ disabled' = st.disabled
          /\ marked' = st.marked
    /\ FnFrame

\* const fields = data.fields || {}: the handler never passes a falsy mapping
FnHandler ==
    /\ op = "none"
    /\ arg # NoFields
    /\ op' = "handler"
    /\ LET st == SnapshotApply(arg, ControlState)
       IN /\ dom' = st.dom
          /\ disabled' = st.disabled
          /\ marked' = st.marked
    /\ FnFrame

\* applyFieldsToDom(getCurrentFieldsFromDom())
FnRoundTrip ==
    /\ op = "none"
    /\ op' = "roundtrip"
    /\ dom' = applyFieldsToDom(getCurrentFieldsFromDom(dom), dom)
    /\ UNCHANGED <<disabled, marked>>
    /\ FnFrame

\* applyTrackMaxes a second time, with the same mapping
FnEnforceAgain ==
    /\ op = "enforce"
    /\ op' = "enforce twice"
    /\ LET st == applyTrackMaxes(arg, ControlState)
       IN /\ dom' = st.dom
          /\ disabled' = st.disabled
          /\ marked' = st.marked
    /\ FnFrame

NextFn ==
    \/ FnApplyAll
    \/ FnEnforce
    \/ FnHandler
    \/ FnRoundTrip
    \/ FnEnforceAgain

SpecFn == InitFn /\ [][NextFn]_vars

(***************************************************************************)
(* Properties                                                              *)
(***************************************************************************)
\* an empty control: '' for a text control, unchecked for a checkbox
EmptyOf(k) == IF KindOf(k) = "checkbox" THEN Bool(FALSE) ELSE Str(<<>>)

\* the decimal value of a sequence of digits
RECURSIVE DecimalOf(_)
DecimalOf(s) ==
    IF s = <<>> THEN 0
    ELSE DecimalOf(SubSeq(s, 1, Len(s) - 1)) * 10 + DigitVal(s[Len(s)])

AllDigits(s) == s # <<>> /\ \A i \in 1..Len(s) : IsDigit(s[i])

\* s without its leading white space
RECURSIVE Unpadded(_)
Unpadded(s) ==
    IF s # <<>> /\ Head(s) \in WhiteSpace THEN Unpadded(Tail(s)) ELSE s

\* v declares an integer m >= 0: a number, or a string of decimal digits,
\* which white space may precede
DeclaresMax(v) ==
    \/ v.t = "num" /\ v.n >= 0
    \/ v.t = "str" /\ AllDigits(Unpadded(v.s))

DeclaredMax(v) == IF v.t = "num" THEN v.n ELSE DecimalOf(Unpadded(v.s))

Min(a, b) == IF a < b THEN a ELSE b

\* s is a decimal numeral: digits, optionally followed by a point and digits
IsNumeral(s) ==
    \E n \in 1..Len(s) :
        /\ AllDigits(SubSeq(s, 1, n))
        /\ \/ n = Len(s)
           \/ /\ n + 1 < Len(s)
              /\ s[n + 1] = CodeOf["."]
              /\ AllDigits(SubSeq(s, n + 2, Len(s)))

\* v is a negative number: a number below zero, or a minus sign followed by a
\* numeral with a digit other than 0
IsNegative(v) ==
    \/ v.t = "num" /\ v.n < 0
    \/ /\ v.t = "str"
       /\ v.s # <<>>
       /\ Head(v.s) = CodeOf["-"]
       /\ IsNumeral(Tail(v.s))
       /\ \E i \in 2..Len(v.s) : IsDigit(v.s[i]) /\ v.s[i] # CodeOf["0"]

\* v is a string that is no number at all (no digit in it)
IsNonNumeric(v) == v.t = "str" /\ \A i \in 1..Len(v.s) : ~IsDigit(v.s[i])

\* C3 as stated: applyFieldsToDom is a partial apply; every registered control
\* whose key is not in the mapping keeps the value it had before the call.
C3_PartialApply ==
    op = "applyAll" =>
        \A k \in ControlKeys : k \notin DOMAIN arg => dom[k] = pre.dom[k]

\* C4: for every track T with absolute maximum A whose T_max declares an
\* integer m >= 0, after applyTrackMaxes and after the snapshot handler's
\* existing-document branch every present sub-field T_i with i < min(m, A) is
\* enabled and unmarked, and every present T_i with min(m, A) <= i < A is
\* disabled, marked and cleared, whatever value the mapping carried for it.
C4_TrackEnforced ==
    (op \in {"enforce", "handler"} /\ arg # NoFields) =>
        \A bi \in TrackLoop :
            LET k == SubKey(bi[1], bi[2])
                v == Get(arg, MaxKey(bi[1]))
            IN (k \in ControlKeys /\ DeclaresMax(v)) =>
                  IF bi[2] < Min(DeclaredMax(v), TRACK_DEFINITIONS[bi[1]])
                  THEN ~disabled[k] /\ ~marked[k]
                  ELSE disabled[k] /\ marked[k] /\ dom[k] = EmptyOf(k)

\* the handler has processed hp_max = "1" together with a value for box 11:
\* box 0 is open, box 11 is closed and empty
C4_Witness ==
    /\ op = "handler"
    /\ Get(arg, "hp_max") = Lit(<<"1">>)
    /\ Get(arg, "hp_11") = Lit(<<"x", "\r", "\n", "y">>)
    /\ Get(arg, "hp_0") = Bool(TRUE)
    /\ ~disabled["hp_0"]
    /\ dom["hp_0"] = Bool(TRUE)
    /\ disabled["hp_11"]
    /\ marked["hp_11"]
    /\ dom["hp_11"] = Str(<<>>)

\* C5 as stated: when T_max is absent, non-numeric or negative, applyTrackMaxes
\* leaves the track fully open: every present sub-field is enabled, unmarked and
\* keeps its value.
C5_InvalidMaxOpensTrack ==
    (op = "enforce" /\ arg # NoFields) =>
        \A bi \in TrackLoop :
            LET k == SubKey(bi[1], bi[2])
                v == Get(arg, MaxKey(bi[1]))
            IN (k \in ControlKeys /\ (v.t = "undef" \/ IsNonNumeric(v) \/ IsNegative(v)))
                  => ~disabled[k] /\ ~marked[k] /\ dom[k] = pre.dom[k]

\* the last docRef.set call of a step that made one
Dispatched == writes'[Len(writes')]

\* the payload carries exactly the registered controls, each with its value
CarriesDom(payload, d) ==
    /\ DOMAIN payload = ControlKeys
    /\ \A k \in ControlKeys : payload[k] = d[k]

\* C1: every burst of triggers (triggers each arriving while the callback of
\* the previous one is pending) dispatches exactly one push, due Delay after
\* the last trigger of the burst: N triggers in one burst give 1 push, N
\* triggers each arriving after the previous callback has run give N pushes.
C1_Debounce ==
    /\ pushes + Cardinality(timers) = bursts
    /\ \A t \in timers :
          t = (IF sinceTrigger < Delay THEN Delay - sinceTrigger ELSE 0)
    /\ (timers = {} /\ triggers >= 1 /\ bursts = 1) => pushes = 1
    /\ (timers = {} /\ bursts = triggers) => pushes = triggers

\* two triggers in one quiet window have given one push
C1_Witness ==
    /\ triggers = 2
    /\ bursts = 1
    /\ timers = {}
    /\ pushes = 1

\* C2 as stated: a snapshot of the existing document that does not list field
\* F, arriving while an edit of F waits for the debounce, leaves F's control at
\* the edited value, and the push dispatched at expiry carries that value.
C2_PendingEditSurvives ==
    [][/\ (OnSnapshotExists /\ timers # {} /\ lastEdit.key \notin DOMAIN doc.fields)
            => dom'[lastEdit.key] = lastEdit.value
       /\ (TimerFire /\ lastEdit.key \notin DOMAIN doc.fields)
            => Dispatched.fields[lastEdit.key] = lastEdit.value]_vars

\* C6 as stated: once a snapshot has been applied, in every state each present
\* sub-field T_i is enabled iff i < currentMax, with currentMax derived from
\* the T_max field of the field document.
C6_TrackFollowsDocument ==
    applied # NoFields =>
        \A k \in ControlKeys : \A bi \in TrackSlots(k) :
            LET currentMax == CurrentMax(doc.fields, bi[1])
            IN /\ 0 <= currentMax
               /\ currentMax <= TRACK_DEFINITIONS[bi[1]]
               /\ ~disabled[k] <=> bi[2] < currentMax

\* C6 (amended): once a snapshot has been applied, in every state each present
\* sub-field T_i is enabled (and unmarked) iff i < currentMax, with
\* 0 <= currentMax <= absoluteMax derived from the T_max field of the snapshot
\* last applied; a later change of T_max in the document, or an edit of the
\* T_max control, shows only when its snapshot is applied.
C6_TrackFollowsSnapshot ==
    applied # NoFields =>
        \A k \in ControlKeys : \A bi \in TrackSlots(k) :
            LET currentMax == ClampedMax(applied[bi[1]], TRACK_DEFINITIONS[bi[1]])
            IN /\ 0 <= currentMax
               /\ currentMax <= TRACK_DEFINITIONS[bi[1]]
               /\ ~disabled[k] <=> bi[2] < currentMax
               /\ marked[k] <=> disabled[k]

\* the applied snapshot closed the track, the user has since emptied hp_max
\* and the push has reached the document, but its snapshot has not arrived
C6_Witness ==
    /\ applied # NoFields
    /\ applied["hp"] = Lit(<<"0">>)
    /\ disabled["hp_0"]
    /\ disabled["hp_11"]
    /\ Get(doc.fields, "hp_max") = Str(<<>>)
    /\ dom["hp_max"] = Str(<<>>)

\* C7: a push is a merge write.  The payload is the registry read at dispatch;
\* when the store applies it, every key of the payload has the pushed value in
\* the document's fields and every other key of the document keeps its value;
\* no step removes a key from the document.
C7_PushIsMergeWrite ==
    [][/\ TimerFire => CarriesDom(Dispatched.fields, dom)
       /\ WriteOk =>
            /\ \A k \in DOMAIN Head(writes).fields :
                  /\ k \in DOMAIN doc'.fields
                  /\ doc'.fields[k] = Head(writes).fields[k]
            /\ \A k \in (DOMAIN doc.fields) \ (DOMAIN Head(writes).fields) :
                  /\ k \in DOMAIN doc'.fields
                  /\ doc'.fields[k] = doc.fields[k]
       /\ (DOMAIN doc.fields) \subseteq (DOMAIN doc'.fields)]_vars

\* a push has been acknowledged on a document that holds a key the page lacks
C7_Witness ==
    /\ status = "Synced"
    /\ pushes >= 1
    /\ Get(doc.fields, "notes") = Lit(<<"n">>)
    /\ Get(doc.fields, "name") = Lit(<<"B">>)
    /\ ControlKeys \subseteq DOMAIN doc.fields

\* C8: on a snapshot of a document that does not exist the handler issues a
\* create write whose fields are the registry read at that moment, changes no
\* control, and sets the status to "Connected (new sheet)".
C8_LazyCreate ==
    [][OnSnapshotMissing =>
          /\ Len(writes') = Len(writes) + 1
          /\ SubSeq(writes', 1, Len(writes)) = writes
          /\ Dispatched.kind = "create"
          /\ CarriesDom(Dispatched.fields, dom)
          /\ dom' = dom
          /\ disabled' = disabled
          /\ marked' = marked
          /\ status' = "Connected (new sheet)"]_vars

\* the create write in flight carries a value typed before the listeners were
\* attached: no trigger has fired and the control still holds the value
C8_Witness ==
    /\ status = "Connected (new sheet)"
    /\ writes # <<>>
    /\ Head(writes).kind = "create"
    /\ Head(writes).fields["name"] = Lit(<<"B">>)
    /\ Head(writes).fields["hp_0"] = Bool(FALSE)
    /\ dom["name"] = Lit(<<"B">>)
    /\ triggers = 0
    /\ ~doc.exists

\* C9 as stated: only the first delivered snapshot reports an initial status
\* ("Connected (new sheet)" or "Connected (loaded from cloud)"); every later
\* one, the one after a lazy creation included, reports "Updated from cloud".
C9_InitialStatusOnce ==
    [][(OnSnapshotMissing \/ OnSnapshotExists) =>
          IF boundLive THEN status' = "Updated from cloud"
          ELSE status' \in {"Connected (new sheet)",
                            "Connected (loaded from cloud)"}]_vars

\* C9 (amended): every snapshot of a missing document reports "Connected (new
\* sheet)" and leaves the one-shot flag set; the first snapshot of an existing
\* document, also when it follows a lazy creation, reports "Connected (loaded
\* from cloud)"; every snapshot of an existing document after that reports
\* "Updated from cloud".  Each snapshot of an existing document re-runs
\* applyFieldsToDom and applyTrackMaxes.
C9_LoadedStatusOnce ==
    [][/\ OnSnapshotMissing => status' = "Connected (new sheet)"
       /\ OnSnapshotExists =>
            /\ status' = IF applied = NoFields
                         THEN "Connected (loaded from cloud)"
                         ELSE "Updated from cloud"
            /\ applied' = MaxFields(doc.fields)
            /\ \A k \in ControlKeys :
                  k \notin DOMAIN doc.fields => dom'[k] = EmptyOf(k)]_vars

\* the snapshot that followed the lazy creation reported the loaded status
C9_Witness ==
    /\ boundLive
    /\ status = "Connected (loaded from cloud)"
    /\ doc.exists
    /\ "notes" \notin DOMAIN doc.fields
    /\ remotes = 0

\* C10: when the store rejects a push, no control value, disabled flag or
\* marker changes, the status becomes "Sync failed" and nothing is dispatched
\* again: a write is dispatched only when a callback armed by an edit trigger
\* expires (carrying the control values of that moment) or when a missing
\* document is created, and a callback is armed only by an edit trigger.
C10_FailedPushNotRetried ==
    [][/\ (WriteFail /\ Head(writes).kind = "push") =>
            /\ dom' = dom
            /\ disabled' = disabled
            /\ marked' = marked
            /\ status' = "Sync failed"
            /\ writes' = Tail(writes)
            /\ timers' = timers
       /\ Len(writes') > Len(writes) =>
            \/ /\ Dispatched.kind = "push"
               /\ 0 \in timers
               /\ CarriesDom(Dispatched.fields, dom)
            \/ /\ Dispatched.kind = "create"
               /\ ~doc.exists
       /\ (timers = {} /\ timers' # {}) => triggers' = triggers + 1]_vars

\* the only push failed: the edit stays in the DOM, the document never got it,
\* nothing is in flight and no callback is pending
C10_Witness ==
    /\ status = "Sync failed"
    /\ pushes = 1
    /\ writes = <<>>
    /\ timers = {}
    /\ dom["name"] = Lit(<<"B">>)
    /\ Get(doc.fields, "name") # Lit(<<"B">>)

\* the status texts that show an error
ErrorStatuses == {"Sync failed", "Connection error"}

\* C11 as stated: every failure of a store operation of the two channels (field
\* push, lazy create, subscription, layout load, layout save) is caught inside
\* the channel and turned into an error status; none leaves the channel as an
\* uncaught error or a rejected promise.
C11_StoreFailuresCaught ==
    [][/\ (uncaught' \ uncaught) \subseteq {"init"}
       /\ (\/ WriteFail /\ ~WriteOk
           \/ OnSnapshotError
           \/ BootLayoutFail /\ ~BootLayoutOk
           \/ LayoutSetFail /\ ~LayoutSetOk
           \/ LayoutGetFail /\ ~LayoutGetOk) => status' \in ErrorStatuses]_vars

\* C17 as stated: when the store client fails to initialize, no store write,
\* read or subscription is ever attempted, the controls stay editable, and the
\* status shows an error.
C17_InitFailureShowsError ==
    pc = "dead" =>
        /\ writes = <<>>
        /\ layoutOps = <<>>
        /\ sub = "none"
        /\ \A k \in ControlKeys : ~disabled[k]
        /\ status \in ErrorStatuses

\* C12: a store write in flight never blocks edit capture.  A trigger that
\* fires while a write is in flight sets the status to "Syncing" and re-arms the
\* debounce timer to the full delay; the payload of every dispatched push is
\* the registry read when the callback runs; and, the timer running and due
\* callbacks being called, every edit trigger is eventually followed by the
\* dispatch of such a push.
C12_EditsEventuallyPushed ==
    /\ [][/\ (triggers' = triggers + 1 /\ writes # <<>>)
                => /\ timers' = {Delay}
                   /\ status' = "Syncing"
                   /\ writes' = writes
          /\ TimerFire => /\ Dispatched.kind = "push"
                          /\ CarriesDom(Dispatched.fields, dom)]_vars
    /\ (lastEdit # NoEdit) ~> (lastEdit = NoEdit /\ pushes >= 1)

\* the first push is still in flight and a later trigger has armed the timer
C12_Witness ==
    /\ writes # <<>>
    /\ Head(writes).kind = "push"
    /\ pushes = 1
    /\ triggers = 2
    /\ timers = {Delay}
    /\ status = "Syncing"

\* C13: for every state of the registered controls (text and checkbox),
\* applyFieldsToDom(getCurrentFieldsFromDom()) leaves every control's value,
\* disabled flag and marker as they were.
C13_RoundTrip ==
    op = "roundtrip" =>
        /\ \A k \in ControlKeys : dom[k] = pre.dom[k]
        /\ disabled = pre.disabled
        /\ marked = pre.marked

\* the round trip has run on a checked box and a filled text control
C13_Witness ==
    /\ op = "roundtrip"
    /\ pre.dom["hp_0"] = Bool(TRUE)
    /\ dom["hp_0"] = Bool(TRUE)
    /\ dom["name"] = Lit(<<"x">>)
    /\ dom["hp_max"] = Str(<<>>)

\* C14: applyTrackMaxes is idempotent.  For every mapping and every control
\* state, a second run with the same mapping changes no control value, no
\* disabled flag and no marker, and neither run issues a store write or arms
\* the debounce timer.
C14_EnforceIdempotent ==
    [][/\ FnEnforceAgain
            => /\ dom' = dom
               /\ disabled' = disabled
               /\ marked' = marked
       /\ (FnEnforce \/ FnEnforceAgain)
            => /\ writes' = writes
               /\ timers' = timers
               /\ layoutOps' = layoutOps]_vars

\* the first run closed and emptied box 11 and left box 0 open; the second
\* run has been made
C14_Witness ==
    /\ op = "enforce twice"
    /\ Get(arg, "hp_max") = Lit(<<"3">>)
    /\ pre.dom["hp_11"] = Lit(<<"x">>)
    /\ ~pre.disabled["hp_11"]
    /\ dom["hp_11"] = Str(<<>>)
    /\ disabled["hp_11"]
    /\ marked["hp_11"]
    /\ ~disabled["hp_0"]

\* C15: boot() reads the layout document once, and the layout document is
\* written only by an explicit saveLayout call.  A layout call in flight comes
\* from a window.__layout call; the layout document changes only when the set
\* of a saveLayout completes; no edit trigger, debounced push, lazy create or
\* snapshot handling touches the layout document or the layout calls; and no
\* step of saveLayout or reloadLayout touches the field document or its writes.
C15_LayoutWrittenOnlyBySave ==
    [][/\ pc = "ready" => pc' = "ready"
       /\ Len(layoutOps') > Len(layoutOps)
            => /\ layoutCalls' = layoutCalls + 1
               /\ layoutOps'[Len(layoutOps')].ref = "layoutRef"
       /\ layoutDoc' # layoutDoc
            => /\ layoutOps # <<>>
               /\ Head(layoutOps).kind = "set"
               /\ layoutOps' = Tail(layoutOps)
               /\ layoutDoc' = LayoutSet(layoutDoc, Head(layoutOps).fields)
       /\ (triggers' # triggers \/ pushes' # pushes \/ writes' # writes
             \/ OnSnapshotMissing \/ OnSnapshotExists)
            => /\ layoutDoc' = layoutDoc
               /\ layoutOps' = layoutOps
       /\ (layoutCalls' # layoutCalls \/ layoutOps' # layoutOps)
            => /\ doc' = doc
               /\ writes' = writes
               /\ dirty' = dirty]_vars

\* a saveLayout has created the layout document, and a push of an edit has
\* been acknowledged
C15_Witness ==
    /\ layoutDoc.exists
    /\ layoutDoc.fields = collectLayoutFromDom(InitialStyle)
    /\ layoutOps = <<>>
    /\ pushes = 1
    /\ status = "Synced"
    /\ doc.exists

\* C16: boot ordering.  The subscription is opened by the step in which the
\* layout load of boot() settles, with success or with failure, and the edit
\* listeners are attached by then; a failed layout load is followed by the
\* listeners and the subscription all the same; and a snapshot is handled only
\* after the layout load has settled: until then no track is enforced and no
\* write is issued or scheduled, and a control changes only by the
\* user's own edit, which no listener hears.
C16_BootOrder ==
    [][/\ (sub = "none" /\ sub' # "none")
            => /\ pc = "layout"
               /\ pc' = "ready"
               /\ listening'
       /\ (BootLayoutFail \/ BootLayoutOk)
            => /\ sub' = "open"
               /\ listening'
               /\ pc' = "ready"
       /\ (sub # "none" \/ listening) => pc = "ready"
       /\ (OnSnapshotMissing \/ OnSnapshotExists \/ OnSnapshotError)
            => pc = "ready"
       /\ pc \in {"init", "layout"}
            => /\ disabled' = disabled
               /\ marked' = marked
               /\ applied' = applied
               /\ boundLive' = boundLive
               /\ writes' = writes
               /\ timers' = timers
               /\ dom' # dom =>
                    \E k \in ControlKeys : \E v \in EditValues(k) : EditLocal(k, v)]_vars

\* the load of a saved layout failed (the styles are those of the markup), the
\* user typed a name while it was awaited, which no listener heard, and the
\* subscription has delivered a snapshot
C16_Witness ==
    /\ layoutDoc = SavedLayout
    /\ style = InitialStyle
    /\ layoutCalls = 0
    /\ pc = "ready"
    /\ listening
    /\ sub = "open"
    /\ boundLive
    /\ dom["name"] = Lit(<<"B">>)
    /\ triggers = 0
    /\ timers = {}

\* C18: no feedback loop.  Handling a snapshot of an existing document
\* (applyFieldsToDom, then applyTrackMaxes with its clearing of the sub-fields
\* beyond the maximum) issues no store write and neither arms nor resets the
\* debounce timer.  A write of the field document is dispatched only by a due
\* callback of the debounce or by a snapshot of a missing document, a callback
\* is armed only by an edit trigger, and a layout call is issued only by a
\* window.__layout call; so there are never more pushes than edit triggers.
C18_NoFeedbackLoop ==
    [][/\ OnSnapshotExists
            => /\ writes' = writes
               /\ timers' = timers
               /\ layoutOps' = layoutOps
               /\ pushes' = pushes
       /\ Len(writes') > Len(writes)
            => \/ Dispatched.kind = "push" /\ 0 \in timers /\ pushes' = pushes + 1
               \/ Dispatched.kind = "create" /\ ~doc.exists /\ dirty
       /\ (Delay \in timers' /\ (Delay \notin timers \/ sinceTrigger # 0))
            => triggers' = triggers + 1
       /\ Len(layoutOps') > Len(layoutOps) => layoutCalls' = layoutCalls + 1
       /\ pushes <= bursts
       /\ bursts <= triggers]_vars

\* the push of a burst that checked box 0 and set the maximum to 0 has come
\* back as a snapshot, which cleared and closed box 0; nothing is in flight and
\* no callback is pending
C18_Witness ==
    /\ Get(doc.fields, "hp_0") = Bool(TRUE)
    /\ Get(doc.fields, "hp_max") = Lit(<<"0">>)
    /\ ~dirty
    /\ dom["hp_0"] = Bool(FALSE)
    /\ disabled["hp_0"]
    /\ pushes = 1
    /\ triggers = 2
    /\ writes = <<>>
    /\ timers = {}

\* a push is in flight
PushInFlight == \E i \in 1..Len(writes) : writes[i].kind = "push"

\* C20 as stated: whenever the status shows "Synced", no edit is still
\* unpushed: no debounce callback is pending and no push is in flight.
C20_SyncedMeansPushed ==
    status = "Synced" => (timers = {} /\ ~PushInFlight)

\* on neither page is a debounce callback pending or a write in flight, and
\* every change of the existing document has been delivered to both pages
TwoQuiescent ==
    /\ doc.exists
    /\ \A c \in Clients :
          /\ clients[c].timers = {}
          /\ clients[c].writes = <<>>
          /\ ~clients[c].dirty

\* every control of page c is equal to the document's value for its key
\* (empty or unchecked when the document has none), except the sub-fields
\* beyond the maximum of their track, which are cleared and disabled
Converged(c) ==
    \A k \in ControlKeys :
        IF BeyondMax(doc.fields, k)
        THEN clients[c].dom[k] = EmptyOf(k) /\ clients[c].disabled[k]
        ELSE clients[c].dom[k] =
                (IF k \in DOMAIN doc.fields THEN doc.fields[k] ELSE EmptyOf(k))

\* s without its line feeds and carriage returns
WithoutLineBreaks(s) == SelectSeq(s, LAMBDA u : u \notin {10, 13})

\* s with every CR LF pair and every other CR as one LF: the carriage returns
\* that a line feed follows are left out, the others become line feeds
LineFeedsOnly(s) ==
    LET kept == SelectSeq([i \in 1..Len(s) |-> i],
                          LAMBDA i : ~(s[i] = 13 /\ i < Len(s) /\ s[i + 1] = 10))
    IN [j \in 1..Len(kept) |-> IF s[kept[j]] = 13 THEN 10 ELSE s[kept[j]]]

\* the string of a string or a boolean
Written(v) ==
    IF v.t = "str" THEN v.s
    ELSE IF v.b THEN Text(<<"t", "r", "u", "e">>)
    ELSE Text(<<"f", "a", "l", "s", "e">>)

\* a control of key k holds w as the document's value v, a string or a
\* boolean, assigned to it: a checkbox is checked unless v is false or the
\* empty string; an input holds the string of v without its line breaks; a
\* textarea holds the string of v with each of its line breaks as one LF
Holds(k, w, v) ==
    CASE KindOf(k) = "checkbox" -> w = Bool(v # Bool(FALSE) /\ v # Str(<<>>))
      [] KindOf(k) = "text" -> w = Str(WithoutLineBreaks(Written(v)))
      [] OTHER -> w = Str(LineFeedsOnly(Written(v)))

\* every control of page c shows the document's value for its key as the
\* control holds it once assigned, an absent key as empty or unchecked,
\* except the sub-fields beyond the maximum of their track, which are
\* cleared and disabled
Showing(c) ==
    \A k \in ControlKeys :
        IF BeyondMax(doc.fields, k)
        THEN clients[c].dom[k] = EmptyOf(k) /\ clients[c].disabled[k]
        ELSE IF k \in DOMAIN doc.fields
        THEN Holds(k, clients[c].dom[k], doc.fields[k])
        ELSE clients[c].dom[k] = EmptyOf(k)

\* the last push of page c was rejected and nothing has happened on the page
\* since: the status reports the failure and the controls hold the values
\* that push carried
KeepsRejected(c) ==
    /\ clients[c].status = "Sync failed"
    /\ clients[c].rejected # NoFields
    /\ CarriesDom(clients[c].rejected, clients[c].dom)

\* C19 as stated: with two pages bound to one existing document, in every
\* quiescent state every control of each page is equal to the document's value
\* for its key, except the sub-fields beyond the maximum.
C19_ConvergedAtQuiescence ==
    TwoQuiescent => \A c \in Clients : Converged(c)

\* C19 (amended): with two pages bound to one existing document, whose fields
\* are strings and booleans, in every quiescent state each page either shows
\* the document (every control holds the document's value for its key as the
\* control stores it when assigned, the sub-fields beyond the maximum cleared
\* and disabled), or reports "Sync failed" and holds in its controls exactly
\* the values of its last rejected push.
C19_ConvergedOrPushRejected ==
    /\ \A k \in DOMAIN doc.fields : doc.fields[k].t \in {"str", "bool"}
    /\ TwoQuiescent => \A c \in Clients : Showing(c) \/ KeepsRejected(c)

\* quiescent after an edit of the maximum on page 1, whose push the store
\* applied, and an edit of the name on page 2, whose push the store rejected:
\* page 1 shows the document, with box 0, checked in the document, cleared and
\* closed because the maximum is 0; page 2 reports the failure and keeps the
\* name the document never received
C19_Witness ==
    /\ TwoQuiescent
    /\ clients[1].edits = 1
    /\ clients[2].edits = 1
    /\ Get(doc.fields, "hp_max") = Lit(<<"0">>)
    /\ Get(doc.fields, "hp_0") = Bool(TRUE)
    /\ clients[1].status = "Updated from cloud"
    /\ Showing(1)
    /\ clients[1].dom["hp_0"] = Bool(FALSE)
    /\ clients[1].disabled["hp_0"]
    /\ clients[2].status = "Sync failed"
    /\ clients[2].dom["name"] = Lit(<<"B">>)
    /\ Get(doc.fields, "name") # Lit(<<"B">>)
    /\ ~Showing(2)

====
